---- MODULE Spec2Model ----
(***************************************************************************)
(* Model of the BPM / key detection plugin (stage3-plugin/Source).         *)
(*                                                                         *)
(* Numbers.  The C++ code computes in float.  Here a real value is an      *)
(* exact fraction <<n, d>> with d > 0 in lowest terms; comparisons are     *)
(* done by cross multiplication.  Spectral magnitudes are whole multiples  *)
(* of the amplitude quantum 1/MagDen.  The FFT itself (juce::dsp::FFT) is  *)
(* a library call: an audio buffer is given by its length and by the       *)
(* magnitude spectrum the transform yields for each of its frames.         *)
(***************************************************************************)
EXTENDS Integers, Sequences, FiniteSets, TLC

VARIABLES
    sampleRate,      \* BPMDetector::sampleRate
    confidence,      \* BPMDetector::confidence
    keySampleRate,   \* KeyDetector::sampleRate
    op,              \* the call made last on the detectors
    audio,           \* the buffer argument of that call
    ret,             \* what that call returned
    chromagram,      \* detectKey's chromagram as handed to findBestKey
    currentBPM,      \* BPMKeyDetectorAudioProcessor::currentBPM (float bits)
    bpmConfidence,   \* ...::bpmConfidence (float bits)
    keyConfidence,   \* ...::keyConfidence (float bits)
    currentKey,      \* ...::currentKey (UTF-8 bytes)
    currentMode,     \* ...::currentMode (UTF-8 bytes)
    destData,        \* the host's block after the last getStateInformation
    written,         \* the bytes that call wrote into it
    saved,           \* the processor's results when that call was made
    stateData,       \* the bytes given to the last setStateInformation
    currentSampleRate,       \* ...::currentSampleRate
    analysisBufferSize,      \* ...::analysisBufferSize
    analysisBufferWritePos,  \* ...::analysisBufferWritePos
    analysisBuffer,          \* ...::analysisBuffer
    analyzing,               \* ...::analyzing
    writeLog,        \* the writes the last processBlock made into analysisBuffer
    fault,           \* the undefined behaviour a call has run into, if any
    analysisLock,    \* ...::analysisLock: the call that holds it, or "free"
    hostPc,          \* the statement of prepareToPlay the host's thread is at
    hostArg,         \* the sampleRate argument of that prepareToPlay
    analysisPc,      \* the statement of performAnalysis its thread is at
    analysisLocal    \* the local variables of that performAnalysis

detectorVars == <<sampleRate, confidence, keySampleRate, op, audio, ret, chromagram>>

resultVars == <<currentBPM, bpmConfidence, keyConfidence, currentKey, currentMode>>

hostVars == <<destData, written, saved, stateData>>

bufferVars ==
    <<currentSampleRate, analysisBufferSize, analysisBufferWritePos, analysisBuffer,
      analyzing, writeLog, fault>>

threadVars == <<analysisLock, hostPc, hostArg, analysisPc, analysisLocal>>

processorVars == <<resultVars, hostVars, bufferVars, threadVars>>

vars == <<detectorVars, processorVars>>

----------------------------------------------------------------------------
(* Bounds of the model *)

\* spectrum bins kept per frame (the code has fftSize / 2 of them)
SpecBins == 2
\* magnitudes are n / MagDen
MagDen == 4
\* largest magnitude numerator of a click
MaxMag == 4
\* longest click period, in frames
MaxPeriod == 4
\* most frames of a buffer handed to detectBPM
MaxFrames == 12
\* most frames of a buffer handed to detectKey
MaxKeyFrames == 2
\* most frames and longest click period of the long click trains
MaxTempoFrames == 90
MaxTempoPeriod == 44
\* largest magnitude numerator of a tone
MaxToneMag == 2
\* longest buffer of the framing runs, in hops
MaxFrameHops == 20
\* most samples and most channels of a block handed to processBlock
MaxBlock == 3
MaxChannels == 2

----------------------------------------------------------------------------
(* Arithmetic on fractions *)

RECURSIVE GCD(_, _)
GCD(a, b) == IF b = 0 THEN a ELSE GCD(b, a % b)

Abs(x) == IF x < 0 THEN -x ELSE x

\* n / d in lowest terms, d # 0
Frac(n, d) ==
    LET g == GCD(Abs(n), Abs(d))
        s == IF d < 0 THEN -1 ELSE 1
    IN  <<(s * n) \div g, (s * d) \div g>>

FracLT(a, b) == a[1] * b[2] < b[1] * a[2]
FracLE(a, b) == a[1] * b[2] <= b[1] * a[2]

\* C++ integer division truncates toward zero
CDiv(a, b) == IF a >= 0 THEN a \div b ELSE -((-a) \div b)

\* juce::jlimit (lo, hi, v)
jlimit(lo, hi, v) == IF FracLT(v, lo) THEN lo ELSE IF FracLT(hi, v) THEN hi ELSE v

RECURSIVE SumSeq(_)
SumSeq(s) == IF s = <<>> THEN 0 ELSE Head(s) + SumSeq(Tail(s))

----------------------------------------------------------------------------
(* BPMDetector *)

hopSize == 512
fftSize == 2048
\* estimateTempoFromOnsets needs this many onset values
minOnsets == 10
\* the tempo range searched and accepted, in BPM
minBPM == 40
maxBPM == 240
\* confidence of a default-constructed detector, and of the fallback
initialConfidence == <<1, 2>>
fallbackConfidence == <<3, 10>>
fallbackBPM == <<120, 1>>
zeroBPM == <<0, 1>>

\* a frame count that forgets the length of the window
numFramesWithoutWindow(numSamples) == CDiv(numSamples, hopSize)

\* number of frames calculateOnsetStrength walks over
numFramesOf(numSamples) == CDiv(numSamples - fftSize, hopSize)

\* the samples the frames of a framer read: frame k (from 0) starts at
\* k * hop and its window reads audioData[startSample + i] for i in [0, size)
framesRead(numFrames, hop, size) ==
    [frame \in 1..numFrames |->
        [first |-> (frame - 1) * hop, last |-> (frame - 1) * hop + size - 1]]

\* the samples calculateOnsetStrength reads, frame by frame
onsetFramesRead(numSamples) == framesRead(numFramesOf(numSamples), hopSize, fftSize)

\* spectral flux of one frame against the previous spectrum
fluxOf(spectrum, prevSpectrum) ==
    SumSeq([i \in 1..SpecBins |->
              IF spectrum[i] - prevSpectrum[i] > 0
              THEN spectrum[i] - prevSpectrum[i] ELSE 0])

zeroSpectrum == [i \in 1..SpecBins |-> 0]

\* the onset strength envelope, one flux value per frame
calculateOnsetStrength(a) ==
    LET numFrames == numFramesOf(a.numSamples)
    IN  [frame \in 1..numFrames |->
            fluxOf(a.spectra[frame],
                   IF frame = 1 THEN zeroSpectrum ELSE a.spectra[frame - 1])]

\* sum over i in [0, size - lag) of signal[i] * signal[i + lag], and the count
RECURSIVE autocorrSum(_, _, _)
autocorrSum(signal, lag, i) ==
    IF i + lag > Len(signal) THEN 0
    ELSE signal[i] * signal[i + lag] + autocorrSum(signal, lag, i + 1)

\* the indices autocorrelate reads of a signal of `size` values (lag <= size):
\* signal[i] and signal[i + lag] for i in [0, size - lag)
autocorrelateReads(size, lag) ==
    UNION {{i, i + lag} : i \in 0..(size - lag - 1)}

autocorrelate(signal, lag) ==
    LET count == Len(signal) - lag
    IN  IF count > 0 THEN <<autocorrSum(signal, lag, 1), count>> ELSE <<0, 1>>

\* floor (framesPerSecond * 60 / bpm), framesPerSecond = sampleRate / hopSize
lagOfBPM(sr, bpm) == CDiv(sr * 60, hopSize * bpm)

minLagOf(sr) == lagOfBPM(sr, maxBPM)

maxLagRangeOf(sr, size) ==
    LET maxLag == size \div 2
        byTempo == lagOfBPM(sr, minBPM)
    IN  IF byTempo < maxLag THEN byTempo ELSE maxLag

\* a comparison that also lets an equal autocorrelation replace the best one
reaches(corr, maxCorr) == FracLE(maxCorr, corr)

\* corr > maxCorr
exceeds(corr, maxCorr) == FracLT(maxCorr, corr)

\* the search loop: <<maxCorr, bestLag>> after the lags in [lag, maxLagRange)
RECURSIVE lagSearch(_, _, _, _)
lagSearch(signal, lag, maxLagRange, best) ==
    IF lag >= maxLagRange THEN best
    ELSE LET corr == autocorrelate(signal, lag)
         IN  IF exceeds(corr, best[1])
             THEN lagSearch(signal, lag + 1, maxLagRange, <<corr, lag>>)
             ELSE lagSearch(signal, lag + 1, maxLagRange, best)

bestLagOf(onsetStrength, sr) ==
    lagSearch(onsetStrength, minLagOf(sr),
              maxLagRangeOf(sr, Len(onsetStrength)), <<(<<0, 1>>), 0>>)[2]

estimateTempoFromOnsets(onsetStrength, sr) ==
    IF Len(onsetStrength) < minOnsets THEN zeroBPM
    ELSE LET bestLag == bestLagOf(onsetStrength, sr)
         IN  IF bestLag = 0 THEN zeroBPM
             ELSE Frac(60 * sr, hopSize * bestLag)

\* variance * 10 of the onset envelope
varianceTimes10(onsetStrength) ==
    LET n == Len(onsetStrength)
        total == SumSeq(onsetStrength)
        sq == SumSeq([i \in 1..n |->
                        (n * onsetStrength[i] - total) * (n * onsetStrength[i] - total)])
    IN  Frac(10 * sq, n * n * n * MagDen * MagDen)

\* detectBPM with a range check that has lost its upper limit
detectBPMNoUpperLimit(a, sr, conf) ==
    IF a.numSamples < fftSize THEN [bpm |-> zeroBPM, confidence |-> conf]
    ELSE LET onsetStrength == calculateOnsetStrength(a)
         IN  IF onsetStrength = <<>> THEN [bpm |-> zeroBPM, confidence |-> conf]
             ELSE LET bpm == estimateTempoFromOnsets(onsetStrength, sr)
                  IN  IF FracLT(bpm, <<minBPM, 1>>)
                      THEN [bpm |-> fallbackBPM, confidence |-> fallbackConfidence]
                      ELSE [bpm |-> bpm,
                            confidence |-> jlimit(<<0, 1>>, <<1, 1>>,
                                                  varianceTimes10(onsetStrength))]

\* detectBPM storing variance * 10 as it is, without jlimit
detectBPMUnclamped(a, sr, conf) ==
    IF a.numSamples < fftSize THEN [bpm |-> zeroBPM, confidence |-> conf]
    ELSE LET onsetStrength == calculateOnsetStrength(a)
         IN  IF onsetStrength = <<>> THEN [bpm |-> zeroBPM, confidence |-> conf]
             ELSE LET bpm == estimateTempoFromOnsets(onsetStrength, sr)
                  IN  IF FracLT(bpm, <<minBPM, 1>>) \/ FracLT(<<maxBPM, 1>>, bpm)
                      THEN [bpm |-> fallbackBPM, confidence |-> fallbackConfidence]
                      ELSE [bpm |-> bpm, confidence |-> varianceTimes10(onsetStrength)]

\* detectBPM: the value returned and the confidence stored afterwards
detectBPM(a, sr, conf) ==
    IF a.numSamples < fftSize THEN [bpm |-> zeroBPM, confidence |-> conf]
    ELSE LET onsetStrength == calculateOnsetStrength(a)
         IN  IF onsetStrength = <<>> THEN [bpm |-> zeroBPM, confidence |-> conf]
             ELSE LET bpm == estimateTempoFromOnsets(onsetStrength, sr)
                  IN  IF FracLT(bpm, <<minBPM, 1>>) \/ FracLT(<<maxBPM, 1>>, bpm)
                      THEN [bpm |-> fallbackBPM, confidence |-> fallbackConfidence]
                      ELSE [bpm |-> bpm,
                            confidence |-> jlimit(<<0, 1>>, <<1, 1>>,
                                                  varianceTimes10(onsetStrength))]

----------------------------------------------------------------------------
(* KeyDetector *)
(*                                                                         *)
(* The buffer handed to detectKey is a stationary signal: every frame has  *)
(* the same magnitude spectrum, given as a function from the FFT bins that *)
(* carry energy to their magnitudes (all other bins are 0).  A Pearson     *)
(* correlation, which needs square roots, is kept in fixed point, as a     *)
(* whole number of 1/corrScale.                                            *)

keyHopSize == 512
keyFftSize == 4096
corrScale == 10000

majorProfile == <<635, 223, 348, 233, 438, 409, 252, 519, 239, 366, 229, 288>>
minorProfile == <<633, 268, 352, 538, 260, 353, 254, 475, 398, 269, 334, 317>>
pitchClasses == <<"C", "C#", "D", "D#", "E", "F", "F#", "G", "G#", "A", "A#", "B">>

\* frequencies are in units of 1/keyFftSize Hz, so that bin * sampleRate is exact
\* 27.5 Hz and 4186 Hz
minFrequency == 112640
maxFrequency == 17145856
\* ceiling of 3520 Hz * 2^(j/12) in those units, j = 0..11: the notes A7 .. G#8
semitones == <<14417920, 15275255, 16183569, 17145894, 18165441, 19245615,
               20390019, 21602472, 22887022, 24247955, 25689813, 27217409>>

RECURSIVE toTopOctave(_)
toTopOctave(f) == IF f >= semitones[1] THEN f ELSE toTopOctave(2 * f)

\* fmod (69 + 12 * log2 (frequency / 440), 12), truncated to an integer
frequencyToPitchClass(f) ==
    LET t == toTopOctave(f)
        j == CHOOSE k \in 1..12 :
                /\ t >= semitones[k]
                /\ (k = 12 \/ t < semitones[k + 1])
    IN  (9 + (j - 1)) % 12

RECURSIVE SumSet(_, _)
SumSet(S, f) ==
    IF S = {} THEN 0
    ELSE LET x == CHOOSE y \in S : TRUE IN f[x] + SumSet(S \ {x}, f)

\* number of frames calculateChromagram walks over
keyNumFramesOf(numSamples) == CDiv(numSamples - keyFftSize, keyHopSize)

\* the samples calculateChromagram reads, frame by frame
chromaFramesRead(numSamples) ==
    framesRead(keyNumFramesOf(numSamples), keyHopSize, keyFftSize)

\* the 12 accumulated magnitudes
calculateChromagram(a, sr) ==
    LET numFrames == keyNumFramesOf(a.numSamples)
        inRange(bin) == /\ bin >= 1
                        /\ bin < keyFftSize \div 2
                        /\ ~ (bin * sr < minFrequency \/ bin * sr > maxFrequency)
        hit(pc) == {bin \in DOMAIN a.spectrum :
                      inRange(bin) /\ frequencyToPitchClass(bin * sr) % 12 = pc}
    IN  [i \in 1..12 |->
            IF numFrames > 0 THEN numFrames * SumSet(hit(i - 1), a.spectrum) ELSE 0]

\* a normalisation by the largest entry instead of the sum
normalizeChromagramByMax(chroma) ==
    LET largest == CHOOSE m \in {chroma[i] : i \in 1..12} : \A i \in 1..12 : chroma[i] <= m
    IN  IF largest > 0 THEN [i \in 1..12 |-> Frac(chroma[i], largest)]
        ELSE [i \in 1..12 |-> <<chroma[i], 1>>]

\* detectKey's normalisation: the chromagram handed to findBestKey
normalizeChromagram(chroma) ==
    LET sum == SumSeq(chroma)
    IN  IF sum > 0 THEN [i \in 1..12 |-> Frac(chroma[i], sum)]
        ELSE [i \in 1..12 |-> <<chroma[i], 1>>]

RECURSIVE isqrtFrom(_, _)
isqrtFrom(n, r) == IF r * r <= n THEN r ELSE isqrtFrom(n, (r + n \div r) \div 2)

\* floor of the square root (Newton's iteration from above)
isqrt(n) ==
    IF n < 2 THEN n
    ELSE isqrtFrom(n, IF n \div 2 + 1 < 46340 THEN n \div 2 + 1 ELSE 46340)

\* the largest power of two s with n * s * s < 2^28, for 0 < n < 2^28
RECURSIVE sqrtShift(_, _)
sqrtShift(n, s) == IF n * 4 * s * s >= 268435456 THEN s ELSE sqrtShift(n, 2 * s)

RECURSIVE LCMSeq(_)
LCMSeq(s) ==
    IF s = <<>> THEN 1
    ELSE LET rest == LCMSeq(Tail(s))
         IN  (Head(s)[2] * rest) \div GCD(Head(s)[2], rest)

\* IEEE single precision on whole multiples of a unit: the spacing of the
\* floats at magnitude n, a float having 24 significant bits
RECURSIVE ulpOf(_, _)
ulpOf(n, g) == IF n < 16777216 * g THEN g ELSE ulpOf(n, 2 * g)

\* n / d rounded to the nearest whole number, a tie to the even one (n >= 0, d > 0)
nearestEven(n, d) ==
    LET q == n \div d
        r == n % d
    IN  IF 2 * r < d THEN q
        ELSE IF 2 * r > d THEN q + 1
        ELSE IF q % 2 = 0 THEN q ELSE q + 1

\* the float nearest to n / d (d > 0)
floatQuotient(n, d) ==
    LET g == ulpOf(Abs(n) \div d, 1)
        q == g * nearestEven(Abs(n), d * g)
    IN  IF n < 0 THEN -q ELSE q

\* the float nearest to n
toFloat(n) == floatQuotient(n, 1)

\* a float accumulator: acc += s[i] for i = from .. Len(s), rounded each time
RECURSIVE floatSum(_, _, _)
floatSum(s, from, acc) ==
    IF from > Len(s) THEN acc ELSE floatSum(s, from + 1, toFloat(acc + s[from]))

\* a profile entry (hundredths) as the float it is compiled to, in units of 2^-22
profileFloat(h) == floatQuotient(h * 1048576, 25)

\* Pearson correlation of x (fractions) and y (a profile), as a fraction.
\*
\* When x is not constant: with den the common denominator of x, dx[i] is
\* 12 * den times x[i] - meanX and dy[i] is 12 times y[i] - meanY; the factors
\* cancel in the quotient, which is given in 1/corrScale.  The sums of squares
\* are whole numbers, so a standard deviation below 1e-10 is a sum of squares
\* that is 0.
\*
\* When x is constant its deviations are decided by the rounding of meanX, so
\* they are computed as the floats are: x[i] and meanX in units of 2^-27,
\* y[i], meanY and dy in units of 2^-22.  stdX is sqrt(12) |dx|, far above
\* 1e-10 unless dx is 0, and the quotient covariance / (stdX * stdY) is
\* covariance / |dx| in units of 2^-22, over sqrt(12) stdY.
correlation(x, y) ==
    LET sumY == SumSeq(y)
        dy == [i \in 1..12 |-> 12 * y[i] - sumY]
        stdY2 == SumSeq([i \in 1..12 |-> dy[i] * dy[i]])
    IN  IF \A i \in 1..12 : x[i] = x[1]
        THEN LET xf == floatQuotient(x[1][1] * 134217728, x[1][2])
                 meanX == floatQuotient(floatSum([i \in 1..12 |-> xf], 1, 0), 12)
                 dxf == toFloat(xf - meanX)
                 yf == [i \in 1..12 |-> profileFloat(y[i])]
                 meanY == floatQuotient(floatSum(yf, 1, 0), 12)
                 dyf == [i \in 1..12 |-> toFloat(yf[i] - meanY)]
                 covariance == floatSum([i \in 1..12 |-> toFloat(dxf * dyf[i])], 1, 0)
                 stdY == CDiv(isqrt(12 * stdY2) * 65536, 1200) * 64
             IN  IF dxf = 0 \/ stdY2 = 0 THEN <<0, 1>>
                 ELSE Frac(covariance, Abs(dxf) * stdY)
        ELSE LET den == LCMSeq(x)
                 xs == [i \in 1..12 |-> x[i][1] * (den \div x[i][2])]
                 sumX == SumSeq(xs)
                 dx == [i \in 1..12 |-> 12 * xs[i] - sumX]
                 stdX2 == SumSeq([i \in 1..12 |-> dx[i] * dx[i]])
                 covariance == SumSeq([i \in 1..12 |-> dx[i] * dy[i]])
             IN  IF stdX2 = 0 \/ stdY2 = 0 THEN <<0, 1>>
                 ELSE LET sX == sqrtShift(stdX2, 1)
                          sY == sqrtShift(stdY2, 1)
                          stdX == isqrt(stdX2 * sX * sX)
                          stdY == isqrt(stdY2 * sY * sY)
                      IN  Frac(CDiv(CDiv(covariance * sX * 4, stdX) * sY * corrScale,
                                    4 * stdY),
                               corrScale)

rotate(profile, root) == [i \in 1..12 |-> profile[((i - 1 + root) % 12) + 1]]

\* a comparison that also lets an equal correlation replace the best one
improvesOrEquals(corr, maxCorrelation) == FracLE(maxCorrelation, corr)

\* majorCorr > maxCorrelation, minorCorr > maxCorrelation
improves(corr, maxCorrelation) == FracLT(maxCorrelation, corr)

\* the scan over the roots, on <<maxCorrelation, bestKey, bestMode>>: the major
\* key of a root is tried before its minor key
RECURSIVE keySearch(_, _, _)
keySearch(dist, root, best) ==
    IF root >= 12 THEN best
    ELSE LET majorCorr == correlation(dist, rotate(majorProfile, root))
             minorCorr == correlation(dist, rotate(minorProfile, root))
         IN  IF improves(majorCorr, best[1])
             THEN IF improves(minorCorr, majorCorr)
                  THEN keySearch(dist, root + 1,
                                 <<minorCorr, pitchClasses[root + 1], "minor">>)
                  ELSE keySearch(dist, root + 1,
                                 <<majorCorr, pitchClasses[root + 1], "major">>)
             ELSE IF improves(minorCorr, best[1])
                  THEN keySearch(dist, root + 1,
                                 <<minorCorr, pitchClasses[root + 1], "minor">>)
                  ELSE keySearch(dist, root + 1, best)

findBestKey(pitchClassDistribution) ==
    LET best == keySearch(pitchClassDistribution, 0, <<(<<-1, 1>>), "C", "major">>)
    IN  [key |-> best[2], mode |-> best[3],
         confidence |-> jlimit(<<0, 1>>, <<1, 1>>,
                               Frac(best[1][1] + best[1][2], 2 * best[1][2]))]

\* detectKey without its check of the buffer's length
detectKeyUnguarded(a, sr) ==
    findBestKey(normalizeChromagram(calculateChromagram(a, sr)))

\* detectKey: the (key, mode, confidence) returned
detectKey(a, sr) ==
    IF a.numSamples < keyFftSize
    THEN [key |-> "C", mode |-> "major", confidence |-> <<0, 1>>]
    ELSE findBestKey(normalizeChromagram(calculateChromagram(a, sr)))

----------------------------------------------------------------------------
(* The detectors as objects: prepare and detect calls in any order *)

defaultSampleRate == 44100

\* rates a host may prepare the detectors with, in Hz
SampleRates == {1024, 2560, 4096}
KeySampleRates == {44100, 48000}

\* a click every `period` frames, the same magnitude in every bin kept
ClickTrain(numSamples, period, mag) ==
    [numSamples |-> numSamples,
     spectra |-> [frame \in 1..numFramesOf(numSamples) |->
                    IF (frame - 1) % period = 0
                    THEN [i \in 1..SpecBins |-> mag] ELSE zeroSpectrum]]

BpmNumSamples == {0, fftSize - 1} \cup {fftSize + hopSize * k : k \in 0..MaxFrames}

\* a sound that grows by `step` in every bin from each frame to the next
Crescendo(numSamples, step) ==
    [numSamples |-> numSamples,
     spectra |-> [frame \in 1..numFramesOf(numSamples) |->
                    [i \in 1..SpecBins |-> frame * step]]]

BpmAudios ==
    {ClickTrain(n, p, m) : n \in BpmNumSamples, p \in 1..MaxPeriod, m \in {0, 1, MaxMag}}
    \cup {Crescendo(n, 1) : n \in BpmNumSamples}

\* the bin nearest to 440 Hz at 44100 Hz, in a 4096 point transform
toneBin == (440 * keyFftSize + defaultSampleRate \div 2) \div defaultSampleRate

KeyNumSamples ==
    {0, keyFftSize - 1} \cup {keyFftSize + keyHopSize * k : k \in 0..MaxKeyFrames}

KeyAudios ==
    {[numSamples |-> n, spectrum |-> sp] :
        n \in KeyNumSamples, sp \in {<<>>, [b \in {toneBin} |-> 1]}}

noAudio == [numSamples |-> 0]
noRet == [void |-> TRUE]

\* stands for the stored confidence in a result worked out ahead of the call
unchanged == <<0, 0>>

\* detectBPM and detectKey on every buffer and rate of the model, worked out
\* once: the actions below look their results up
tempoResults ==
    [sr \in SampleRates \cup {defaultSampleRate} |->
        [a \in BpmAudios |-> detectBPM(a, sr, unchanged)]]

\* the chromagram detectKey hands to findBestKey (none for a short buffer)
handedToFindBestKey(a, sr) ==
    IF a.numSamples < keyFftSize THEN <<>>
    ELSE normalizeChromagram(calculateChromagram(a, sr))

keyResults ==
    [sr \in KeySampleRates \cup {defaultSampleRate} |->
        [a \in KeyAudios |->
            [ret |-> detectKey(a, sr), chromagram |-> handedToFindBestKey(a, sr)]]]

----------------------------------------------------------------------------
(* BPMKeyDetectorAudioProcessor: the analysis results and their persistence *)
(*                                                                         *)
(* A float is the 32-bit pattern of its IEEE-754 encoding, taken as a      *)
(* signed integer (juce writes a float through a union with int).  A       *)
(* juce::String is the sequence of its UTF-8 bytes, none of them 0.  A     *)
(* block of memory is a sequence of bytes.                                 *)

\* the bit patterns of 0.0f, 0.3f, 0.5f, 120.0f and -1.0f
floatBits ==
    [zero |-> 0, threeTenths |-> 1050253722, half |-> 1056964608,
     tempo120 |-> 1123024896, minusOne |-> -1082130432]

toUTF8 ==
    [s \in {"C", "A", "D#", "major", "minor"} |->
        CASE s = "C" -> <<67>>
          [] s = "A" -> <<65>>
          [] s = "D#" -> <<68, 35>>
          [] s = "major" -> <<109, 97, 106, 111, 114>>
          [] s = "minor" -> <<109, 105, 110, 111, 114>>]

\* juce::OutputStream::writeInt: four bytes, least significant first
writeInt(v) ==
    <<v % 256, (v \div 256) % 256, (v \div 65536) % 256, (v \div 16777216) % 256>>

\* juce::OutputStream::writeFloat
writeFloat(v) == writeInt(v)

\* juce::OutputStream::writeString: the UTF-8 bytes and a terminating 0
writeString(text) == text \o <<0>>

\* getStateInformation: the MemoryOutputStream appends to the block it is given
getStateInformation(block, bpm, key, mode, bpmConf, keyConf) ==
    block \o writeFloat(bpm) \o writeString(key) \o writeString(mode)
          \o writeFloat(bpmConf) \o writeFloat(keyConf)

\* juce::ByteOrder::littleEndianInt
littleEndianInt(b) ==
    b[1] + 256 * b[2] + 65536 * b[3]
         + 16777216 * (IF b[4] >= 128 THEN b[4] - 256 ELSE b[4])

\* juce::InputStream::readInt at position pos of data: 0 when fewer than four
\* bytes are left, which are consumed all the same
readInt(data, pos) ==
    IF Len(data) - pos >= 4
    THEN [value |-> littleEndianInt(SubSeq(data, pos + 1, pos + 4)), pos |-> pos + 4]
    ELSE [value |-> 0, pos |-> Len(data)]

\* juce::InputStream::readFloat
readFloat(data, pos) == readInt(data, pos)

\* juce::InputStream::readString: the bytes up to the next 0, or to the end
readString(data, pos) ==
    LET zeros == {k \in (pos + 1)..Len(data) : data[k] = 0}
    IN  IF zeros = {}
        THEN [value |-> SubSeq(data, pos + 1, Len(data)), pos |-> Len(data)]
        ELSE LET k == CHOOSE z \in zeros : \A y \in zeros : z <= y
             IN  [value |-> SubSeq(data, pos + 1, k - 1), pos |-> k]

\* setStateInformation with the fields read in another order
setStateInformationSwapped(data) ==
    LET bpm == readFloat(data, 0)
        key == readString(data, bpm.pos)
        mode == readString(data, key.pos)
        keyConf == readFloat(data, mode.pos)
        bpmConf == readFloat(data, keyConf.pos)
    IN  [currentBPM |-> bpm.value, currentKey |-> key.value,
         currentMode |-> mode.value, bpmConfidence |-> bpmConf.value,
         keyConfidence |-> keyConf.value]

\* setStateInformation: the five results as read from data
setStateInformation(data) ==
    LET bpm == readFloat(data, 0)
        key == readString(data, bpm.pos)
        mode == readString(data, key.pos)
        bpmConf == readFloat(data, mode.pos)
        keyConf == readFloat(data, bpmConf.pos)
    IN  [currentBPM |-> bpm.value, currentKey |-> key.value,
         currentMode |-> mode.value, bpmConfidence |-> bpmConf.value,
         keyConfidence |-> keyConf.value]

\* analysisWindowSeconds
analysisWindowSeconds == 10

\* A juce::AudioBuffer<float>: its channels, each a sequence of numSamples
\* values (whole numbers here); initialised tells which of them have been
\* written since the storage was allocated.
\* The default-constructed buffer has no channel and no sample.
emptyBuffer == [numChannels |-> 0, numSamples |-> 0, samples |-> <<>>,
                initialised |-> <<>>]

\* juce::AudioBuffer::setSize (newNumChannels, newNumSamples): nothing happens
\* when the size is the same, else new storage that is not cleared
setSize(buffer, newNumChannels, newNumSamples) ==
    IF buffer.numChannels = newNumChannels /\ buffer.numSamples = newNumSamples
    THEN buffer
    ELSE [numChannels |-> newNumChannels, numSamples |-> newNumSamples,
          samples |-> [ch \in 1..newNumChannels |->
                         [i \in 1..newNumSamples |-> 0]],
          initialised |-> [ch \in 1..newNumChannels |->
                             [i \in 1..newNumSamples |-> FALSE]]]

\* juce::AudioBuffer::clear ()
clear(buffer) ==
    [buffer EXCEPT
        !.samples =
            [ch \in 1..buffer.numChannels |-> [i \in 1..buffer.numSamples |-> 0]],
        !.initialised =
            [ch \in 1..buffer.numChannels |-> [i \in 1..buffer.numSamples |-> TRUE]]]

\* static_cast<int> (sampleRate * analysisWindowSeconds), sampleRate a
\* fraction <<n, d>> of a Hz
analysisBufferSizeOf(sr) == CDiv(sr[1] * analysisWindowSeconds, sr[2])

\* the rate as the detectors hold it: a whole number of Hz is that number
detectorRate(sr) == IF sr[2] = 1 THEN sr[1] ELSE sr

\* the locals of a performAnalysis that is not running
noLocals == [running |-> FALSE]

\* the five results of the processor
results ==
    [currentBPM |-> currentBPM, currentKey |-> currentKey,
     currentMode |-> currentMode, bpmConfidence |-> bpmConfidence,
     keyConfidence |-> keyConfidence]

\* the processor as constructed, and a host that has not saved anything
ProcessorInit ==
    /\ currentBPM = floatBits.zero
    /\ bpmConfidence = floatBits.zero
    /\ keyConfidence = floatBits.zero
    /\ currentKey = toUTF8["C"]
    /\ currentMode = toUTF8["major"]
    /\ destData = <<>>
    /\ written = <<>>
    /\ saved = [currentBPM |-> floatBits.zero, currentKey |-> toUTF8["C"],
                currentMode |-> toUTF8["major"], bpmConfidence |-> floatBits.zero,
                keyConfidence |-> floatBits.zero]
    /\ stateData = <<>>
    /\ currentSampleRate = <<defaultSampleRate, 1>>
    /\ analysisBufferSize = 0
    /\ analysisBufferWritePos = 0
    /\ analysisBuffer = emptyBuffer
    /\ analyzing = FALSE
    /\ writeLog = <<>>
    /\ fault = "none"
    /\ analysisLock = "free"
    /\ hostPc = "idle"
    /\ hostArg = <<defaultSampleRate, 1>>
    /\ analysisPc = "idle"
    /\ analysisLocal = noLocals

Init ==
    /\ sampleRate = defaultSampleRate
    /\ confidence = initialConfidence
    /\ keySampleRate = defaultSampleRate
    /\ op = "new"
    /\ audio = noAudio
    /\ ret = noRet
    /\ chromagram = <<>>
    /\ ProcessorInit

\* BPMDetector::prepare
BPMPrepare ==
    \E sr \in SampleRates :
        /\ sampleRate' = sr
        /\ op' = "BPMDetector::prepare"
        /\ audio' = noAudio
        /\ ret' = noRet
        /\ chromagram' = <<>>
        /\ UNCHANGED <<confidence, keySampleRate, processorVars>>

\* KeyDetector::prepare
KeyPrepare ==
    \E sr \in KeySampleRates :
        /\ keySampleRate' = sr
        /\ op' = "KeyDetector::prepare"
        /\ audio' = noAudio
        /\ ret' = noRet
        /\ chromagram' = <<>>
        /\ UNCHANGED <<sampleRate, confidence, processorVars>>

\* BPMDetector::detectBPM
DetectBPM ==
    \E a \in BpmAudios :
        LET r == tempoResults[sampleRate][a]
        IN  /\ confidence' = IF r.confidence = unchanged THEN confidence
                              ELSE r.confidence
            /\ op' = "detectBPM"
            /\ audio' = a
            /\ ret' = [bpm |-> r.bpm]
            /\ chromagram' = <<>>
            /\ UNCHANGED <<sampleRate, keySampleRate, processorVars>>

\* KeyDetector::detectKey
DetectKey ==
    \E a \in KeyAudios :
        /\ op' = "detectKey"
        /\ audio' = a
        /\ ret' = keyResults[keySampleRate][a].ret
        /\ chromagram' = keyResults[keySampleRate][a].chromagram
        /\ UNCHANGED <<sampleRate, confidence, keySampleRate, processorVars>>

Next == BPMPrepare \/ KeyPrepare \/ DetectBPM \/ DetectKey

Spec == Init /\ [][Next]_vars

----------------------------------------------------------------------------
(* detectBPM as a function: one call on a long click train, at the rates    *)
(* hosts run at                                                            *)

TempoRates == {44100, 48000}

\* click trains with a period of at least the shortest lag searched, in
\* envelopes long enough for that lag to be searched
TempoAudios ==
    {ClickTrain(fftSize + hopSize * k, p, 1) :
        k \in (2 * minLagOf(defaultSampleRate) + 2)..MaxTempoFrames,
        p \in minLagOf(defaultSampleRate)..MaxTempoPeriod}

InitTempo ==
    /\ sampleRate \in TempoRates
    /\ confidence = initialConfidence
    /\ keySampleRate = defaultSampleRate
    /\ op = "pending"
    /\ audio \in TempoAudios
    /\ ret = noRet
    /\ chromagram = <<>>
    /\ ProcessorInit

\* BPMDetector::detectBPM on the buffer drawn
DetectPending ==
    /\ op = "pending"
    /\ LET r == detectBPM(audio, sampleRate, confidence)
       IN  /\ confidence' = r.confidence
           /\ ret' = [bpm |-> r.bpm]
    /\ op' = "detectBPM"
    /\ UNCHANGED <<sampleRate, keySampleRate, audio, chromagram, processorVars>>

NextTempo == DetectPending

SpecTempo == InitTempo /\ [][NextTempo]_vars

----------------------------------------------------------------------------
(* detectKey as a function: one call on a buffer of at most two tones *)

\* one bin for each pitch class at 44100 Hz, the bin of 440 Hz, and a bin on
\* either side of the range of frequencies kept
ToneBins == {1, 13, 14, 15, 16, 17, 18, 19, 20, 22, 23, 25, 41, 400}

\* twelve bins that fall into the twelve pitch classes at 44100 Hz
ChromaticBins == ToneBins \ {1, 400}

ToneSpectra ==
    {<<>>}
    \cup {[b \in {b1, b2} |-> IF b = b1 THEN m1 ELSE m2] :
            b1 \in ToneBins, b2 \in ToneBins, m1 \in 1..MaxToneMag, m2 \in 1..MaxToneMag}
    \cup {[b \in ChromaticBins |-> m] : m \in 1..MaxToneMag}

ToneAudios ==
    {[numSamples |-> n, spectrum |-> sp] : n \in KeyNumSamples, sp \in ToneSpectra}

InitKey ==
    /\ sampleRate = defaultSampleRate
    /\ confidence = initialConfidence
    /\ keySampleRate \in KeySampleRates
    /\ op = "pending"
    /\ audio \in ToneAudios
    /\ ret = noRet
    /\ chromagram = <<>>
    /\ ProcessorInit

\* KeyDetector::detectKey on the buffer drawn
DetectKeyPending ==
    /\ op = "pending"
    /\ ret' = detectKey(audio, keySampleRate)
    /\ chromagram' = handedToFindBestKey(audio, keySampleRate)
    /\ op' = "detectKey"
    /\ UNCHANGED <<sampleRate, confidence, keySampleRate, audio, processorVars>>

NextKey == DetectKeyPending

SpecKey == InitKey /\ [][NextKey]_vars

----------------------------------------------------------------------------
(* The processor's results saved and restored by a host *)

\* the results an analysis can store
AnalysisResults ==
    {[currentBPM |-> floatBits.zero, bpmConfidence |-> floatBits.half,
      currentKey |-> toUTF8["C"], currentMode |-> toUTF8["major"],
      keyConfidence |-> floatBits.zero],
     [currentBPM |-> floatBits.tempo120, bpmConfidence |-> floatBits.threeTenths,
      currentKey |-> toUTF8["D#"], currentMode |-> toUTF8["major"],
      keyConfidence |-> floatBits.half],
     [currentBPM |-> floatBits.tempo120, bpmConfidence |-> floatBits.half,
      currentKey |-> toUTF8["A"], currentMode |-> toUTF8["minor"],
      keyConfidence |-> floatBits.minusOne]}

\* what a host's block holds when it is handed to getStateInformation
HostBlocks == {<<>>, <<255>>}

\* updateAnalysisResults
UpdateAnalysisResults ==
    \E r \in AnalysisResults :
        /\ currentBPM' = r.currentBPM
        /\ bpmConfidence' = r.bpmConfidence
        /\ currentKey' = r.currentKey
        /\ currentMode' = r.currentMode
        /\ keyConfidence' = r.keyConfidence
        /\ op' = "updateAnalysisResults"
        /\ UNCHANGED <<sampleRate, confidence, keySampleRate, audio, ret,
                       chromagram, hostVars, bufferVars, threadVars>>

\* getStateInformation (destData)
GetStateInformation ==
    \E block \in HostBlocks :
        LET after == getStateInformation(block, currentBPM, currentKey,
                                         currentMode, bpmConfidence, keyConfidence)
        IN  /\ destData' = after
            /\ written' = SubSeq(after, Len(block) + 1, Len(after))
            /\ saved' = results
            /\ op' = "getStateInformation"
            /\ UNCHANGED <<sampleRate, confidence, keySampleRate, audio, ret,
                           chromagram, resultVars, stateData, bufferVars,
                           threadVars>>

\* setStateInformation (data, sizeInBytes): the bytes last written, or the
\* first sizeInBytes of them
SetStateInformation ==
    \E sizeInBytes \in 0..Len(written) :
        LET data == SubSeq(written, 1, sizeInBytes)
            r == setStateInformation(data)
        IN  /\ currentBPM' = r.currentBPM
            /\ currentKey' = r.currentKey
            /\ currentMode' = r.currentMode
            /\ bpmConfidence' = r.bpmConfidence
            /\ keyConfidence' = r.keyConfidence
            /\ stateData' = data
            /\ op' = "setStateInformation"
            /\ UNCHANGED <<sampleRate, confidence, keySampleRate, audio, ret,
                           chromagram, destData, written, saved, bufferVars,
                           threadVars>>

NextState == UpdateAnalysisResults \/ GetStateInformation \/ SetStateInformation

SpecState == Init /\ [][NextState]_vars

----------------------------------------------------------------------------
(* Both detectors on buffers whose lengths lie around the multiples of the *)
(* hop size                                                                *)

FrameNumSamples ==
    {n \in {hopSize * k + d : k \in 0..MaxFrameHops, d \in {-1, 0, 1}} : n >= 0}

\* a click train that both detectors can be handed: no tone in its spectrum
FrameAudios ==
    {[numSamples |-> n, spectra |-> ClickTrain(n, p, 1).spectra, spectrum |-> <<>>] :
        n \in FrameNumSamples, p \in 1..2}

InitFrames ==
    /\ sampleRate \in SampleRates \cup {defaultSampleRate}
    /\ confidence = initialConfidence
    /\ keySampleRate = defaultSampleRate
    /\ op = "pending"
    /\ audio \in FrameAudios
    /\ ret = noRet
    /\ chromagram = <<>>
    /\ ProcessorInit

NextFrames == DetectPending \/ DetectKeyPending

SpecFrames == InitFrames /\ [][NextFrames]_vars

----------------------------------------------------------------------------
(* The processor's circular buffer: whole calls of prepareToPlay,          *)
(* startAnalysis, stopAnalysis and processBlock, one after the other       *)

\* rates that give small buffers: 0, 1, 2 and 3 samples
BufferRates == {<<1, 20>>, <<1, 10>>, <<1, 5>>, <<3, 10>>}

\* the block a host hands to processBlock: sample i of channel ch is 10 ch + i
Block(numSamples, numChannels) ==
    [numSamples |-> numSamples, numChannels |-> numChannels,
     samples |-> [ch \in 1..numChannels |-> [i \in 1..numSamples |-> 10 * ch + i]]]

Blocks == {Block(n, c) : n \in 0..MaxBlock, c \in 0..MaxChannels}

\* prepareToPlay (sampleRate, samplesPerBlock)
PrepareToPlay ==
    \E sr \in BufferRates :
        /\ fault = "none"
        /\ hostPc = "idle" /\ analysisPc = "idle"
        /\ currentSampleRate' = sr
        /\ analysisBufferSize' = analysisBufferSizeOf(sr)
        /\ analysisBuffer' = clear(setSize(analysisBuffer, 2, analysisBufferSizeOf(sr)))
        /\ analysisBufferWritePos' = 0
        /\ sampleRate' = detectorRate(sr)
        /\ keySampleRate' = detectorRate(sr)
        /\ op' = "prepareToPlay"
        /\ audio' = noAudio
        /\ ret' = noRet
        /\ writeLog' = <<>>
        /\ UNCHANGED <<confidence, chromagram, resultVars, hostVars, analyzing,
                       fault, threadVars>>

\* startAnalysis
StartAnalysis ==
    /\ fault = "none"
    /\ hostPc = "idle" /\ analysisPc = "idle"
    /\ IF ~ analyzing
       THEN /\ analyzing' = TRUE
            /\ analysisBufferWritePos' = 0
            /\ analysisBuffer' = clear(analysisBuffer)
       ELSE UNCHANGED <<analyzing, analysisBufferWritePos, analysisBuffer>>
    /\ op' = "startAnalysis"
    /\ audio' = noAudio
    /\ ret' = noRet
    /\ writeLog' = <<>>
    /\ UNCHANGED <<sampleRate, confidence, keySampleRate, chromagram, resultVars,
                   hostVars, currentSampleRate, analysisBufferSize, fault,
                   threadVars>>

\* stopAnalysis
StopAnalysis ==
    /\ fault = "none"
    /\ hostPc = "idle" /\ analysisPc = "idle"
    /\ analyzing' = FALSE
    /\ op' = "stopAnalysis"
    /\ audio' = noAudio
    /\ ret' = noRet
    /\ writeLog' = <<>>
    /\ UNCHANGED <<sampleRate, confidence, keySampleRate, chromagram, resultVars,
                   hostVars, currentSampleRate, analysisBufferSize,
                   analysisBufferWritePos, analysisBuffer, fault, threadVars>>

\* one turn of processBlock's inner loop: dst[analysisBufferWritePos] = src[i],
\* then the write position moves on.  st is the buffer, the write position,
\* the writes made so far and the fault run into.
copySample(st, size, src, ch, i) ==
    IF st.fault # "none" THEN st
    ELSE LET logged == Append(st.log, [channel |-> ch, sample |-> i, index |-> st.pos])
         IN  IF st.pos < 0 \/ st.pos >= st.buffer.numSamples
             THEN [st EXCEPT !.log = logged, !.fault = "write out of bounds"]
             ELSE IF size = 0
             THEN [st EXCEPT !.log = logged,
                             !.buffer.samples[ch + 1][st.pos + 1] = src[ch + 1][i + 1],
                             !.buffer.initialised[ch + 1][st.pos + 1] = TRUE,
                             !.fault = "modulo by zero"]
             ELSE [st EXCEPT !.log = logged,
                             !.buffer.samples[ch + 1][st.pos + 1] = src[ch + 1][i + 1],
                             !.buffer.initialised[ch + 1][st.pos + 1] = TRUE,
                             !.pos = (st.pos + 1) % size]

\* processBlock's loops from sample i of channel ch on
RECURSIVE copyFrom(_, _, _, _, _, _)
copyFrom(st, size, block, numChannels, ch, i) ==
    IF ch >= numChannels THEN st
    ELSE IF i >= block.numSamples THEN copyFrom(st, size, block, numChannels, ch + 1, 0)
    ELSE copyFrom(copySample(st, size, block.samples, ch, i),
                  size, block, numChannels, ch, i + 1)

\* juce::jmin
jmin(a, b) == IF b < a THEN b ELSE a

\* processBlock (buffer, midiMessages) while analyzing: what it leaves
processBlock(block, buffer, pos, size) ==
    copyFrom([buffer |-> buffer, pos |-> pos, log |-> <<>>, fault |-> "none"],
             size, block, jmin(block.numChannels, buffer.numChannels), 0, 0)

\* processBlock (buffer, midiMessages)
ProcessBlock ==
    \E block \in Blocks :
        /\ fault = "none"
        /\ hostPc = "idle" /\ analysisPc = "idle"
        /\ analysisLock = "free"
        /\ IF analyzing
           THEN LET after == processBlock(block, analysisBuffer,
                                          analysisBufferWritePos, analysisBufferSize)
                IN  /\ analysisBuffer' = after.buffer
                    /\ analysisBufferWritePos' = after.pos
                    /\ writeLog' = after.log
                    /\ fault' = after.fault
           ELSE /\ writeLog' = <<>>
                /\ UNCHANGED <<analysisBuffer, analysisBufferWritePos, fault>>
        /\ op' = "processBlock"
        /\ audio' = block
        /\ ret' = noRet
        /\ UNCHANGED <<sampleRate, confidence, keySampleRate, chromagram, resultVars,
                       hostVars, currentSampleRate, analysisBufferSize, analyzing,
                       threadVars>>

NextBuffer == PrepareToPlay \/ StartAnalysis \/ StopAnalysis \/ ProcessBlock

SpecBuffer == Init /\ [][NextBuffer]_vars

----------------------------------------------------------------------------
(* prepareToPlay on the host's thread and performAnalysis on the analysis  *)
(* thread, one statement at a time                                         *)

\* the float a detector's result is stored as
floatOf ==
    [f \in {<<0, 1>>, <<3, 10>>, <<1, 2>>, <<120, 1>>} |->
        CASE f = <<0, 1>> -> floatBits.zero
          [] f = <<3, 10>> -> floatBits.threeTenths
          [] f = <<1, 2>> -> floatBits.half
          [] f = <<120, 1>> -> floatBits.tempo120]

\* a step of the host's thread leaves the analysis thread and the results alone
hostStep(next) ==
    /\ fault = "none"
    /\ hostPc' = next
    /\ UNCHANGED <<confidence, audio, ret, chromagram, resultVars, hostVars,
                   analyzing, writeLog, fault, analysisLock, analysisPc,
                   analysisLocal>>

\* the host calls prepareToPlay (sampleRate, samplesPerBlock)
HostCall ==
    \E sr \in BufferRates :
        /\ hostPc = "idle"
        /\ hostArg' = sr
        /\ hostStep("currentSampleRate")
        /\ op' = "prepareToPlay"
        /\ UNCHANGED <<sampleRate, keySampleRate, currentSampleRate,
                       analysisBufferSize, analysisBufferWritePos, analysisBuffer>>

\* currentSampleRate = sampleRate
HostSetRate ==
    /\ hostPc = "currentSampleRate"
    /\ currentSampleRate' = hostArg
    /\ hostStep("analysisBufferSize")
    /\ UNCHANGED <<op, hostArg, sampleRate, keySampleRate, analysisBufferSize,
                   analysisBufferWritePos, analysisBuffer>>

\* analysisBufferSize = static_cast<int>(sampleRate * analysisWindowSeconds)
HostSetSize ==
    /\ hostPc = "analysisBufferSize"
    /\ analysisBufferSize' = analysisBufferSizeOf(hostArg)
    /\ hostStep("setSize")
    /\ UNCHANGED <<op, hostArg, sampleRate, keySampleRate, currentSampleRate,
                   analysisBufferWritePos, analysisBuffer>>

\* analysisBuffer.setSize (2, analysisBufferSize)
HostResize ==
    /\ hostPc = "setSize"
    /\ analysisBuffer' = setSize(analysisBuffer, 2, analysisBufferSize)
    /\ hostStep("clear")
    /\ UNCHANGED <<op, hostArg, sampleRate, keySampleRate, currentSampleRate,
                   analysisBufferSize, analysisBufferWritePos>>

\* analysisBuffer.clear()
HostClear ==
    /\ hostPc = "clear"
    /\ analysisBuffer' = clear(analysisBuffer)
    /\ hostStep("analysisBufferWritePos")
    /\ UNCHANGED <<op, hostArg, sampleRate, keySampleRate, currentSampleRate,
                   analysisBufferSize, analysisBufferWritePos>>

\* analysisBufferWritePos = 0
HostResetPos ==
    /\ hostPc = "analysisBufferWritePos"
    /\ analysisBufferWritePos' = 0
    /\ hostStep("bpmDetector.prepare")
    /\ UNCHANGED <<op, hostArg, sampleRate, keySampleRate, currentSampleRate,
                   analysisBufferSize, analysisBuffer>>

\* bpmDetector.prepare (sampleRate)
HostPrepareBPM ==
    /\ hostPc = "bpmDetector.prepare"
    /\ sampleRate' = detectorRate(hostArg)
    /\ hostStep("keyDetector.prepare")
    /\ UNCHANGED <<op, hostArg, keySampleRate, currentSampleRate,
                   analysisBufferSize, analysisBufferWritePos, analysisBuffer>>

\* keyDetector.prepare (sampleRate), and prepareToPlay returns
HostPrepareKey ==
    /\ hostPc = "keyDetector.prepare"
    /\ keySampleRate' = detectorRate(hostArg)
    /\ hostStep("idle")
    /\ UNCHANGED <<op, hostArg, sampleRate, currentSampleRate,
                   analysisBufferSize, analysisBufferWritePos, analysisBuffer>>

\* a step of the analysis thread leaves the host's thread and the buffer alone
analysisStep(next) ==
    /\ fault = "none"
    /\ analysisPc' = next
    /\ UNCHANGED <<sampleRate, keySampleRate, audio, ret, hostVars, bufferVars,
                   hostPc, hostArg>>

\* const juce::ScopedLock sl (analysisLock)
AnalysisLock ==
    /\ analysisPc = "idle"
    /\ analysisLock = "free"
    /\ analysisLock' = "performAnalysis"
    /\ analysisLocal' = [running |-> TRUE]
    /\ op' = "performAnalysis"
    /\ analysisStep("getNumSamples")
    /\ UNCHANGED <<confidence, chromagram, resultVars>>

\* if (analysisBuffer.getNumSamples() == 0) return
AnalysisCheck ==
    /\ analysisPc = "getNumSamples"
    /\ IF analysisBuffer.numSamples = 0
       THEN /\ analysisLock' = "free"
            /\ analysisLocal' = noLocals
            /\ analysisStep("idle")
       ELSE /\ analysisStep("monoBuffer")
            /\ UNCHANGED <<analysisLock, analysisLocal>>
    /\ UNCHANGED <<op, confidence, chromagram, resultVars>>

\* the values a sample read before it was cleared may have
Garbage == {-1, 0}

\* the mono mix of the two channels (doubled): monoBuffer, filled from
\* analysisBufferSize samples of analysisBuffer
AnalysisMix ==
    /\ analysisPc = "monoBuffer"
    /\ IF analysisBufferSize > analysisBuffer.numSamples
       THEN /\ fault' = "read out of bounds"
            /\ analysisPc' = analysisPc
            /\ UNCHANGED <<sampleRate, keySampleRate, audio, ret, hostVars,
                           currentSampleRate, analysisBufferSize,
                           analysisBufferWritePos, analysisBuffer, analyzing,
                           writeLog, hostPc, hostArg, analysisLocal>>
       ELSE /\ \E garbage \in [1..2 -> [1..analysisBufferSize -> Garbage]] :
                 analysisLocal' =
                    [running |-> TRUE,
                     monoBuffer |->
                        [i \in 1..analysisBufferSize |->
                            SumSeq([ch \in 1..2 |->
                                      IF analysisBuffer.initialised[ch][i]
                                      THEN analysisBuffer.samples[ch][i]
                                      ELSE garbage[ch][i]])]]
            /\ analysisStep("detectBPM")
    /\ UNCHANGED <<op, confidence, chromagram, resultVars, analysisLock>>

\* what a detector is handed: numSamples is analysisBufferSize as it is now,
\* and a buffer shorter than one FFT frame has no spectrum
monoAudio == [numSamples |-> analysisBufferSize]

\* float bpm = bpmDetector.detectBPM (monoBuffer.getReadPointer (0), analysisBufferSize)
AnalysisDetectBPM ==
    /\ analysisPc = "detectBPM"
    /\ \E r \in {detectBPM(monoAudio, sampleRate, confidence)} :
           /\ confidence' = r.confidence
           /\ analysisLocal' = [running |-> TRUE,
                                monoBuffer |-> analysisLocal.monoBuffer,
                                bpm |-> r.bpm]
    /\ analysisStep("getConfidence")
    /\ UNCHANGED <<op, chromagram, resultVars, analysisLock>>

\* float bpmConf = bpmDetector.getConfidence()
AnalysisGetConfidence ==
    /\ analysisPc = "getConfidence"
    /\ analysisLocal' = [running |-> TRUE,
                         monoBuffer |-> analysisLocal.monoBuffer,
                         bpm |-> analysisLocal.bpm,
                         bpmConf |-> confidence]
    /\ analysisStep("detectKey")
    /\ UNCHANGED <<op, confidence, chromagram, resultVars, analysisLock>>

\* auto [key, mode, keyConf] = keyDetector.detectKey (...)
AnalysisDetectKey ==
    /\ analysisPc = "detectKey"
    /\ \E r \in {detectKey(monoAudio, keySampleRate)} :
           analysisLocal' = [running |-> TRUE,
                             monoBuffer |-> analysisLocal.monoBuffer,
                             bpm |-> analysisLocal.bpm,
                             bpmConf |-> analysisLocal.bpmConf,
                             key |-> r.key, mode |-> r.mode,
                             keyConf |-> r.confidence]
    /\ analysisStep("updateAnalysisResults")
    /\ UNCHANGED <<op, confidence, chromagram, resultVars, analysisLock>>

\* updateAnalysisResults (bpm, bpmConf, key, mode, keyConf)
AnalysisUpdate ==
    /\ analysisPc = "updateAnalysisResults"
    /\ currentBPM' = floatOf[analysisLocal.bpm]
    /\ bpmConfidence' = floatOf[analysisLocal.bpmConf]
    /\ currentKey' = toUTF8[analysisLocal.key]
    /\ currentMode' = toUTF8[analysisLocal.mode]
    /\ keyConfidence' = floatOf[analysisLocal.keyConf]
    /\ analysisStep("return")
    /\ UNCHANGED <<op, confidence, chromagram, analysisLock, analysisLocal>>

\* performAnalysis returns and sl releases analysisLock
AnalysisUnlock ==
    /\ analysisPc = "return"
    /\ analysisLock' = "free"
    /\ analysisLocal' = noLocals
    /\ analysisStep("idle")
    /\ UNCHANGED <<op, confidence, chromagram, resultVars>>

NextThreads ==
    \/ HostCall \/ HostSetRate \/ HostSetSize \/ HostResize \/ HostClear
    \/ HostResetPos \/ HostPrepareBPM \/ HostPrepareKey
    \/ AnalysisLock \/ AnalysisCheck \/ AnalysisMix \/ AnalysisDetectBPM
    \/ AnalysisGetConfidence \/ AnalysisDetectKey \/ AnalysisUpdate
    \/ AnalysisUnlock

SpecThreads == Init /\ [][NextThreads]_vars

----------------------------------------------------------------------------
(* Claims on the detectors *)

inTempoRange(bpm) == FracLE(<<minBPM, 1>>, bpm) /\ FracLE(bpm, <<maxBPM, 1>>)

shortKeyResult == [key |-> "C", mode |-> "major", confidence |-> <<0, 1>>]

\* C1: after any calls and with any prepared rate, detectBPM on a buffer shorter
\* than its fftSize (2048) returns 0, and detectKey on a buffer shorter than
\* its fftSize (4096) returns ("C", "major", 0).
C1_ShortBuffer ==
    /\ (op = "detectBPM" /\ audio.numSamples < fftSize) => ret.bpm = zeroBPM
    /\ (op = "detectKey" /\ audio.numSamples < keyFftSize) => ret = shortKeyResult

\* a short buffer that carries a tone, on a key detector prepared with another
\* rate, after a detectBPM call that had fallen back
C1_Witness ==
    /\ op = "detectKey"
    /\ audio.numSamples = keyFftSize - 1
    /\ audio.spectrum # <<>>
    /\ keySampleRate # defaultSampleRate
    /\ confidence = fallbackConfidence

\* C2 as stated: every bpm detectBPM returns is in [40, 240], the fallback
\* pair (120, 0.3) included; no other value is returned.
C2_Original ==
    op = "detectBPM" =>
        \/ inTempoRange(ret.bpm)
        \/ (ret.bpm = fallbackBPM /\ confidence = fallbackConfidence)

\* C2 amended: detectBPM returns 0 when the buffer yields no frame
\* (numSamples < fftSize + hopSize); otherwise it returns a bpm in [40, 240],
\* which is the fallback pair (120, 0.3) when the raw estimate is outside
\* that range and the raw estimate itself when it is inside.
C2_Amended ==
    op = "detectBPM" =>
        IF audio.numSamples < fftSize + hopSize
        THEN ret.bpm = zeroBPM
        ELSE LET raw == estimateTempoFromOnsets(calculateOnsetStrength(audio),
                                                sampleRate)
             IN  /\ inTempoRange(ret.bpm)
                 /\ inTempoRange(raw) => ret.bpm = raw
                 /\ ~ inTempoRange(raw) =>
                        ret.bpm = fallbackBPM /\ confidence = fallbackConfidence

\* a raw estimate of 300 BPM (lag 1 at 5 frames per second) replaced by the
\* fallback
C2_Witness ==
    /\ op = "detectBPM"
    /\ Len(calculateOnsetStrength(audio)) >= minOnsets
    /\ FracLT(<<maxBPM, 1>>,
              estimateTempoFromOnsets(calculateOnsetStrength(audio), sampleRate))
    /\ ret.bpm = fallbackBPM
    /\ confidence = fallbackConfidence

\* C3: the pair (returned bpm, getConfidence after the call) depends only on
\* the buffer and the prepared rate: it is the pair a newly made detector,
\* prepared with that rate, gives for that buffer.
C3_Deterministic ==
    op = "detectBPM" =>
        LET fresh == detectBPM(audio, sampleRate, initialConfidence)
        IN  <<ret.bpm, confidence>> = <<fresh.bpm, fresh.confidence>>

\* a pulse of the same positive height every `period` values, 0 elsewhere
isPulseTrain(envelope, period) ==
    /\ envelope # <<>>
    /\ envelope[1] > 0
    /\ \A i \in 1..Len(envelope) :
          envelope[i] = IF (i - 1) % period = 0 THEN envelope[1] ELSE 0

\* C5: for an onset envelope of at least 10 values that is a pulse train of
\* period P, with P in the lag range searched, the lag selected is P, so the
\* bpm recovered is 60 * framesPerSecond / P, whatever the envelope's length.
C5_PulseTrain ==
    op = "detectBPM" =>
        LET envelope == calculateOnsetStrength(audio)
        IN  \A period \in 1..Len(envelope) :
               ( /\ Len(envelope) >= minOnsets
                 /\ isPulseTrain(envelope, period)
                 /\ minLagOf(sampleRate) <= period
                 /\ period < maxLagRangeOf(sampleRate, Len(envelope)) )
               => /\ bestLagOf(envelope, sampleRate) = period
                  /\ estimateTempoFromOnsets(envelope, sampleRate)
                        = Frac(60 * sampleRate, hopSize * period)

\* C6: after any prepare and detect calls, BPMDetector::confidence is within
\* [0, 1], and so is the confidence detectKey returns.
C6_ConfidenceRange ==
    /\ confidence[2] > 0
    /\ FracLE(<<0, 1>>, confidence)
    /\ FracLE(confidence, <<1, 1>>)
    /\ op = "detectKey" =>
          /\ ret.confidence[2] > 0
          /\ FracLE(<<0, 1>>, ret.confidence)
          /\ FracLE(ret.confidence, <<1, 1>>)

\* an onset envelope whose variance * 10 is above 1, clamped to 1
C6_Witness ==
    /\ op = "detectBPM"
    /\ Len(calculateOnsetStrength(audio)) >= minOnsets
    /\ FracLT(<<1, 1>>, varianceTimes10(calculateOnsetStrength(audio)))
    /\ inTempoRange(estimateTempoFromOnsets(calculateOnsetStrength(audio), sampleRate))
    /\ confidence = <<1, 1>>

\* C7: a detectBPM call with numSamples >= fftSize whose onset envelope has fewer
\* than 10 values returns 0 and leaves the stored confidence as it was.
C7_LowData ==
    [][ ( /\ op' = "detectBPM"
          /\ audio'.numSamples >= fftSize
          /\ Len(calculateOnsetStrength(audio')) < minOnsets )
        => (ret'.bpm = zeroBPM /\ confidence' = confidence) ]_vars

\* C8: with an envelope of at least 10 values, detectBPM returns 0 when no lag
\* is selected (bestLag stays 0); otherwise the raw bpm is
\* 60 * framesPerSecond / bestLag.
C8_NoLag ==
    op = "detectBPM" =>
        LET envelope == calculateOnsetStrength(audio)
            bestLag == bestLagOf(envelope, sampleRate)
        IN  Len(envelope) >= minOnsets =>
               IF bestLag = 0 THEN ret.bpm = zeroBPM
               ELSE estimateTempoFromOnsets(envelope, sampleRate)
                       = Frac(60 * sampleRate, hopSize * bestLag)

----------------------------------------------------------------------------
(* Claims on the key estimator *)

\* the chromagram with all of its energy in pitch class k (0 = C .. 11 = B)
singleClass(k) == [i \in 1..12 |-> IF i = k + 1 THEN <<1, 1>> ELSE <<0, 1>>]

\* C4: a chromagram with all of its energy in one pitch class k (index 9, "A",
\* for a 440 Hz tone) makes findBestKey return the key named pitchClasses[k].
C4_PitchLocking ==
    op = "detectKey" =>
        \A k \in 0..11 : chromagram = singleClass(k) => ret.key = pitchClasses[k + 1]

FracAdd(a, b) == Frac(a[1] * b[2] + b[1] * a[2], a[2] * b[2])

RECURSIVE FracSum(_)
FracSum(s) == IF s = <<>> THEN <<0, 1>> ELSE FracAdd(Head(s), FracSum(Tail(s)))

\* C9: the chromagram detectKey hands to findBestKey has 12 entries, none
\* negative, that sum to 1 when the accumulated energy is positive and that
\* are all 0 otherwise.
C9_Normalized ==
    (op = "detectKey" /\ audio.numSamples >= keyFftSize) =>
        /\ Len(chromagram) = 12
        /\ \A i \in 1..12 : chromagram[i][2] > 0 /\ chromagram[i][1] >= 0
        /\ IF SumSeq(calculateChromagram(audio, keySampleRate)) > 0
           THEN FracSum(chromagram) = <<1, 1>>
           ELSE \A i \in 1..12 : chromagram[i] = <<0, 1>>

\* two tones of different strength in different pitch classes
C9_Witness ==
    /\ op = "detectKey"
    /\ Len(chromagram) = 12
    /\ \E i, j \in 1..12 :
          /\ i # j
          /\ chromagram[i] = <<1, 3>>
          /\ chromagram[j] = <<2, 3>>

----------------------------------------------------------------------------
(* Claims on the saved state *)

\* C10: the bytes getStateInformation writes are the record (bpm, key, mode,
\* bpmConfidence, keyConfidence) in that order, the call changes none of the
\* five results, and setStateInformation on those bytes restores all five to
\* the values they had when they were saved.
C10_RoundTrip ==
    /\ op = "getStateInformation" =>
          /\ results = saved
          /\ LET k == Len(saved.currentKey)
                 m == Len(saved.currentMode)
             IN  /\ Len(written) = 4 + (k + 1) + (m + 1) + 4 + 4
                 /\ littleEndianInt(SubSeq(written, 1, 4)) = saved.currentBPM
                 /\ SubSeq(written, 5, 5 + k) = saved.currentKey \o <<0>>
                 /\ SubSeq(written, 6 + k, 6 + k + m) = saved.currentMode \o <<0>>
                 /\ littleEndianInt(SubSeq(written, 7 + k + m, 10 + k + m))
                       = saved.bpmConfidence
                 /\ littleEndianInt(SubSeq(written, 11 + k + m, 14 + k + m))
                       = saved.keyConfidence
    /\ (op = "setStateInformation" /\ written # <<>> /\ stateData = written)
          => results = saved

\* results saved, replaced by a later analysis, and restored from the bytes
\* written after other contents of the host's block; the two confidences
\* differ and one of them has its sign bit set
C10_Witness ==
    /\ op = "setStateInformation"
    /\ stateData = written
    /\ destData # written
    /\ results = saved
    /\ saved.bpmConfidence # saved.keyConfidence
    /\ saved.keyConfidence < 0
    /\ saved.currentKey = toUTF8["A"]

----------------------------------------------------------------------------
(* Claims on the searches of the detectors *)

\* the 24 candidates in the order of the scan: 0 is C major, 1 is C minor,
\* 2 is C# major, ...
candidateCorr(dist, k) ==
    correlation(dist, rotate(IF k % 2 = 0 THEN majorProfile ELSE minorProfile, k \div 2))

candidateOf(r) ==
    2 * ((CHOOSE i \in 1..12 : pitchClasses[i] = r.key) - 1)
        + (IF r.mode = "major" THEN 0 ELSE 1)

\* C12: findBestKey returns, of the 24 (root, mode) candidates taken with the
\* roots ascending and major before minor, the first one whose correlation is
\* the maximum over all 24: no candidate correlates more than the one
\* returned, and every candidate before it correlates strictly less.
C12_FirstMaximum ==
    (op = "detectKey" /\ chromagram # <<>>) =>
        LET w == candidateOf(ret)
            best == candidateCorr(chromagram, w)
        IN  /\ \A k \in 0..23 : FracLE(candidateCorr(chromagram, k), best)
            /\ \A k \in 0..(w - 1) : FracLT(candidateCorr(chromagram, k), best)

\* every pitch class has the same share: a key other than C major is returned
\* and a later candidate correlates exactly as much
C12_Witness ==
    /\ op = "detectKey"
    /\ chromagram # <<>>
    /\ \A i \in 1..12 : chromagram[i] = <<1, 12>>
    /\ ret.key = "D#"
    /\ \E k \in (candidateOf(ret) + 1)..23 :
           candidateCorr(chromagram, k) = candidateCorr(chromagram, candidateOf(ret))

\* C16: when numSamples >= fftSize and the chromagram handed to findBestKey is
\* all zero or otherwise has zero variance (its 12 entries are equal), all 24
\* correlations are 0 by the guard of correlation, and detectKey returns
\* ("C", "major") with confidence exactly 0.5.
C16_ZeroVariance ==
    (/\ op = "detectKey"
     /\ audio.numSamples >= keyFftSize
     /\ \A i \in 1..12 : chromagram[i] = chromagram[1]) =>
        /\ \A k \in 0..23 : candidateCorr(chromagram, k) = <<0, 1>>
        /\ ret = [key |-> "C", mode |-> "major", confidence |-> <<1, 2>>]

\* the lags estimateTempoFromOnsets searches for an envelope of a given length
lagRange(sr, size) == minLagOf(sr)..(maxLagRangeOf(sr, size) - 1)

\* detectBPM has searched the lags of the envelope of its buffer
lagsSearched ==
    /\ op = "detectBPM"
    /\ audio.numSamples >= fftSize
    /\ Len(calculateOnsetStrength(audio)) >= minOnsets

\* bestLag is a lag of the range, no lag of the range has a greater
\* autocorrelation, and every lag of the range before it has a smaller one
firstGreatest(signal, lags, bestLag) ==
    /\ bestLag \in lags
    /\ \A lag \in lags :
           /\ FracLE(autocorrelate(signal, lag), autocorrelate(signal, bestLag))
           /\ lag < bestLag =>
                  FracLT(autocorrelate(signal, lag), autocorrelate(signal, bestLag))

\* C13 as stated: estimateTempoFromOnsets picks as bestLag the smallest lag in
\* [minLag, maxLagRange) whose mean-normalised autocorrelation is the greatest
\* over that range, and never a lag outside the range.
C13_Original ==
    lagsSearched =>
        LET onsetStrength == calculateOnsetStrength(audio)
        IN  firstGreatest(onsetStrength, lagRange(sampleRate, Len(onsetStrength)),
                          bestLagOf(onsetStrength, sampleRate))

\* C13 amended: when some lag in [minLag, maxLagRange) has an autocorrelation
\* above 0, bestLag is the smallest lag of the range whose autocorrelation is
\* the greatest over the range; when none has (the range is empty, or every
\* autocorrelation in it is 0), bestLag stays 0.
C13_Amended ==
    lagsSearched =>
        LET onsetStrength == calculateOnsetStrength(audio)
            lags == lagRange(sampleRate, Len(onsetStrength))
            bestLag == bestLagOf(onsetStrength, sampleRate)
        IN  IF \E lag \in lags : autocorrelate(onsetStrength, lag)[1] > 0
            THEN firstGreatest(onsetStrength, lags, bestLag)
            ELSE bestLag = 0

\* a later lag of the range has exactly the autocorrelation of bestLag, which
\* is above 0
C13_Witness ==
    /\ lagsSearched
    /\ LET onsetStrength == calculateOnsetStrength(audio)
           lags == lagRange(sampleRate, Len(onsetStrength))
           bestLag == bestLagOf(onsetStrength, sampleRate)
       IN  /\ bestLag \in lags
           /\ autocorrelate(onsetStrength, bestLag)[1] > 0
           /\ \E lag \in lags :
                  /\ lag > bestLag
                  /\ FracLE(autocorrelate(onsetStrength, lag),
                            autocorrelate(onsetStrength, bestLag))
                  /\ FracLE(autocorrelate(onsetStrength, bestLag),
                            autocorrelate(onsetStrength, lag))

\* 60 * framesPerSecond / lag
tempoOfLag(sr, lag) == Frac(60 * sr, hopSize * lag)

\* C14: for every prepared rate and every lag in [minLag, maxLagRange), the
\* tempo 60 * framesPerSecond / lag lies in [40, 240], so a selected lag is
\* returned as its tempo and never replaced by the fallback.
C14_LagsInRange ==
    lagsSearched =>
        LET onsetStrength == calculateOnsetStrength(audio)
            lags == lagRange(sampleRate, Len(onsetStrength))
            bestLag == bestLagOf(onsetStrength, sampleRate)
        IN  /\ \A lag \in lags : lag > 0 /\ inTempoRange(tempoOfLag(sampleRate, lag))
            /\ (bestLag # 0 /\ bestLag \in lags) =>
                   ret.bpm = tempoOfLag(sampleRate, bestLag)

\* the frames start at the multiples of the hop and end before numSamples, and
\* there are floor((numSamples - size) / hop) of them, none for a buffer
\* shorter than the window
framesInBounds(frames, numSamples, hop, size) ==
    /\ Len(frames) = (IF numSamples < size THEN 0 ELSE (numSamples - size) \div hop)
    /\ \A k \in 1..Len(frames) :
           /\ frames[k].first = (k - 1) * hop
           /\ frames[k].first >= 0
           /\ frames[k].last < numSamples

\* C15: both framers process exactly floor((numSamples - fftSize) / hopSize)
\* frames, frame k starting at k * hopSize and none when numSamples < fftSize,
\* and read no sample outside [0, numSamples); autocorrelate reads no index
\* outside [0, envelope length) for any lag the search hands it.
C15_ReadsInBounds ==
    /\ op = "detectBPM" =>
          /\ framesInBounds(onsetFramesRead(audio.numSamples), audio.numSamples,
                            hopSize, fftSize)
          /\ audio.numSamples >= fftSize =>
                 Len(calculateOnsetStrength(audio))
                    = Len(onsetFramesRead(audio.numSamples))
          /\ lagsSearched =>
                 LET size == Len(calculateOnsetStrength(audio))
                 IN  \A lag \in lagRange(sampleRate, size) :
                         /\ lag <= size
                         /\ autocorrelateReads(size, lag) \subseteq 0..(size - 1)
    /\ op = "detectKey" =>
          /\ framesInBounds(chromaFramesRead(audio.numSamples), audio.numSamples,
                            keyHopSize, keyFftSize)
          /\ audio.numSamples < keyFftSize => chromagram = <<>>

\* a buffer of a window and a whole number of hops, where the last frame comes
\* nearest to the end of the buffer: its last sample is hopSize samples before
\* the last one of the buffer; lags are searched and the key framer has frames
C15_Witness ==
    /\ op = "detectBPM"
    /\ lagsSearched
    /\ lagRange(sampleRate, Len(calculateOnsetStrength(audio))) # {}
    /\ (audio.numSamples - fftSize) % hopSize = 0
    /\ Len(chromaFramesRead(audio.numSamples)) > 0
    /\ LET frames == onsetFramesRead(audio.numSamples)
       IN  frames[Len(frames)].last = audio.numSamples - hopSize - 1

----------------------------------------------------------------------------
(* Claims on the processor's circular buffer *)

\* C17: in every order of whole prepareToPlay (sampleRate > 0), startAnalysis,
\* stopAnalysis and processBlock calls, every write of processBlock into
\* analysisBuffer is at an index in [0, analysisBufferSize), processBlock
\* never takes a remainder by analysisBufferSize = 0, and processBlock leaves
\* analysisBuffer and analysisBufferWritePos as they were while analyzing is
\* false.
C17_SafeBuffer ==
    [][op' = "processBlock" =>
          /\ \A k \in 1..Len(writeLog') :
                 /\ writeLog'[k].index >= 0
                 /\ writeLog'[k].index < analysisBufferSize
          /\ fault' = "none"
          /\ ~ analyzing => /\ analysisBuffer' = analysisBuffer
                            /\ analysisBufferWritePos' = analysisBufferWritePos]_vars

\* C18: while analyzing, a processBlock call with n samples and c channels
\* (1 or 2) moves analysisBufferWritePos on by n modulo analysisBufferSize and
\* stores sample i of every channel at the same index,
\* (start position + i) modulo analysisBufferSize.
C18_ChannelsAligned ==
    [][(/\ op' = "processBlock"
        /\ analyzing
        /\ analysisBufferSize > 0
        /\ audio'.numChannels \in 1..2) =>
          /\ analysisBufferWritePos'
                = (analysisBufferWritePos + audio'.numSamples) % analysisBufferSize
          /\ \A ch \in 0..(audio'.numChannels - 1), i \in 0..(audio'.numSamples - 1) :
                 \E k \in 1..Len(writeLog') :
                     /\ writeLog'[k].channel = ch
                     /\ writeLog'[k].sample = i
                     /\ writeLog'[k].index
                           = (analysisBufferWritePos + i) % analysisBufferSize]_vars

----------------------------------------------------------------------------
(* Claims on the processor's threads *)

\* C11: the rate-setting step never overlaps an analysis call: in every
\* interleaving of the thread running prepareToPlay and the thread running
\* performAnalysis, no prepare call of a detector and no resize of the buffer
\* is executed while performAnalysis holds analysisLock.
C11_NoOverlap ==
    [][(/\ hostPc \in {"setSize", "bpmDetector.prepare", "keyDetector.prepare"}
        /\ hostPc' # hostPc)
          => analysisLock # "performAnalysis"]_vars

====
